---- MODULE Spec2Model ----
(***************************************************************************)
(* Model of the notebook select_dimension/advancedASE.ipynb.               *)
(*                                                                         *)
(* The notebook is a sequence of cells over shared Python globals.  Two    *)
(* cells carry logic of their own and are modelled statement by statement: *)
(*   - "Plot Embedding Dimension against Number of Blocks" (the sweep over *)
(*     the block count, source lines 97-126), and                          *)
(*   - "debugging n_elbows: What if the between probabilities are not the  *)
(*     same" (the masked assignments, source lines 373-388).               *)
(* Both cells assign every global they read (n, P, k, d, btwn, ...) before *)
(* reading it, so either may be run from the idle kernel in any order.     *)
(*                                                                         *)
(* Probabilities are exact rationals with the common denominator Unit, so  *)
(* that every np.linspace value of the notebook is an integer numerator.   *)
(* sbm / fit_transform / svdvals are library calls: the model records the  *)
(* arguments they receive and draws the embedding width from the random    *)
(* state of the kernel.                                                    *)
(***************************************************************************)
EXTENDS Integers, Sequences, FiniteSets, TLC

VARIABLES
    pc,         \* position in the notebook: idle, or a statement of a cell
    rng,        \* state of numpy's random generator when the kernel starts
    i,          \* loop variable of "for i in range(99)"
    n,          \* global n: list of vertex counts per block
    P,          \* global P: block probability matrix (sequence of rows)
    k,          \* global k: list of recorded block counts
    d,          \* global d: list of recorded embedding dimensions
    X_hat_cols, \* X_hat.shape[1] of the last fit_transform
    bi,         \* position of b in btwn_max for "for b in btwn_max"
    btwn,       \* global btwn: np.linspace(b/45, b, 45)
    tmp,        \* the temporary array P[P==0] of the last masked assignment
    sbm_args,   \* arguments of the last call sbm(n, P)
    sbm_calls   \* number of sbm calls made by the running cell

vars == <<pc, rng, i, n, P, k, d, X_hat_cols, bi, btwn, tmp, sbm_args, sbm_calls>>

(***************************************************************************)
(* Bounds and program constants                                            *)
(***************************************************************************)
\* widest embedding the embedder is taken to return (also the number of rng states)
MaxDim == 3

\* range(99)
SweepIters == 99
\* 25 vertices per block
BlockSize == 25
\* np.identity(10), [25]*10
MaskBlocks == 10
\* np.linspace(b/(45), b, 45), [:45], [45:]
HalfOff == 45
\* np.linspace(0.01, 0.49, 10)
NumBtwnMax == 10

\* common denominator of every probability of the two cells
Unit == 300 * HalfOff

\* the float num/den as a numerator over Unit
Prob(num, den) == (num * Unit) \div den

within_block == Prob(7, 10)
btwn_block == Prob(1, 10)

\* a global no cell has assigned yet
None == <<>>

(***************************************************************************)
(* numpy helpers                                                           *)
(***************************************************************************)
\* A.shape[0], A.shape[1]
Shape0(A) == Len(A)
Shape1(A) == IF Len(A) = 0 THEN 0 ELSE Len(A[1])

\* np.linspace(start, stop, num): num evenly spaced values, both ends included
linspace(start, stop, num) ==
    [t \in 1..num |-> start + ((t - 1) * (stop - start)) \div (num - 1)]

\* np.identity(m)
identity(m) == [r \in 1..m |-> [c \in 1..m |-> IF r = c THEN Unit ELSE 0]]

\* np.flip(a) of a 1-d array
flip(a) == [t \in 1..Len(a) |-> a[Len(a) + 1 - t]]

\* np.concatenate((A, B), 0): B's rows below A's
concatenate0(A, B) == A \o B

\* np.concatenate((A, B), 1): B's columns to the right of A's
concatenate1(A, B) == [r \in 1..Len(A) |-> A[r] \o B[r]]

\* A == v: the boolean mask
EqMask(A, v) == [r \in 1..Shape0(A) |-> [c \in 1..Shape1(A) |-> A[r][c] = v]]

\* the elements of one row selected by that row of the mask, from column c on
RECURSIVE RowSelect(_, _, _)
RowSelect(row, mrow, c) ==
    IF c > Len(row) THEN <<>>
    ELSE (IF mrow[c] THEN <<row[c]>> ELSE <<>>) \o RowSelect(row, mrow, c + 1)

\* the selected elements of rows r, r + 1, ..., row after row
RECURSIVE BoolIndexFrom(_, _, _)
BoolIndexFrom(A, M, r) ==
    IF r > Shape0(A) THEN <<>>
    ELSE RowSelect(A[r], M[r], 1) \o BoolIndexFrom(A, M, r + 1)

\* A[M] with a boolean mask M: advanced indexing, a NEW 1-d array holding the
\* selected elements in row-major order (a copy, never a view of A)
BoolIndex(A, M) == BoolIndexFrom(A, M, 1)

\* a[lo:hi] = vals on a 1-d array a (vals has hi - lo elements)
SliceAssign(a, lo, hi, vals) ==
    [t \in 1..Len(a) |-> IF t > lo /\ t <= hi THEN vals[t - lo] ELSE a[t]]

\* the statement  A[M][lo:hi] = vals : __getitem__(M) builds the temporary,
\* __setitem__ writes the slice of the temporary; A itself is not written
MaskedSliceTemp(A, M, lo, hi, vals) == SliceAssign(BoolIndex(A, M), lo, hi, vals)
MaskedSliceTarget(A, M, lo, hi, vals) == A

(***************************************************************************)
(* Library calls                                                           *)
(***************************************************************************)
\* X_hat.shape[1] after embedder.fit_transform(G) for a graph of m blocks: chosen
\* by the library from the sampled graph, i.e. from the random state; over the
\* rng states every width 1..MaxDim occurs for every m
EmbedCols(r, m) == 1 + ((r + m) % MaxDim)

(***************************************************************************)
(* Kernel start                                                            *)
(***************************************************************************)
Init ==
    /\ pc = "idle"
    /\ rng \in 0..(MaxDim - 1)
    /\ i = 0
    /\ n = None
    /\ P = None
    /\ k = None
    /\ d = None
    /\ X_hat_cols = 0
    /\ bi = 0
    /\ btwn = None
    /\ tmp = None
    /\ sbm_args = None
    /\ sbm_calls = 0

(***************************************************************************)
(* Cell "Plot Embedding Dimension against Number of Blocks"                *)
(***************************************************************************)
\* the extension with the new block's own diagonal entry left at btwn_block
ExtendP_NoDiagonal(Pm) ==
    LET concat1 == << [c \in 1..Shape0(Pm) |-> btwn_block] >>
        concat2 == [r \in 1..(Shape1(Pm) + 1) |-> <<btwn_block>>]
    IN  concatenate1(concatenate0(Pm, concat1), concat2)

\* concat1, concat2 and the two np.concatenate calls
ExtendP(Pm) ==
    LET concat1 == << [c \in 1..Shape0(Pm) |-> btwn_block] >>
        concat2 == [r \in 1..(Shape1(Pm) + 1) |->
                      IF r <= Shape1(Pm) THEN <<btwn_block>> ELSE <<within_block>>]
    IN  concatenate1(concatenate0(Pm, concat1), concat2)

\* statements before the loop
SweepSetup ==
    /\ pc = "idle"
    /\ n' = <<BlockSize, BlockSize>>
    /\ d' = <<>>
    /\ k' = <<>>
    /\ P' = << <<within_block, btwn_block>>, <<btwn_block, within_block>> >>
    /\ i' = 0
    /\ sbm_calls' = 0
    /\ pc' = "sweep_sample"
    /\ UNCHANGED <<rng, X_hat_cols, bi, btwn, tmp, sbm_args>>

\* G = sbm(n, P); X_hat = embedder.fit_transform(G)
SweepSample ==
    /\ pc = "sweep_sample"
    /\ sbm_args' = [n |-> n, P |-> P]
    /\ sbm_calls' = sbm_calls + 1
    /\ X_hat_cols' = EmbedCols(rng, Shape0(P))
    /\ pc' = "sweep_update"
    /\ UNCHANGED <<rng, i, n, P, k, d, bi, btwn, tmp>>

\* k.append(P.shape[0]); d.append(X_hat.shape[1]); n.append(25)
SweepUpdate ==
    /\ pc = "sweep_update"
    /\ k' = Append(k, Shape0(P))
    /\ d' = Append(d, X_hat_cols)
    /\ n' = Append(n, BlockSize)
    /\ pc' = "sweep_extend"
    /\ UNCHANGED <<rng, i, P, X_hat_cols, bi, btwn, tmp, sbm_args, sbm_calls>>

\* the two concatenations, then the next i of range(99) or the end of the loop
SweepExtend ==
    /\ pc = "sweep_extend"
    /\ P' = ExtendP(P)
    /\ IF i + 1 < SweepIters
         THEN i' = i + 1 /\ pc' = "sweep_sample"
         ELSE i' = i /\ pc' = "sweep_done"
    /\ UNCHANGED <<rng, n, k, d, X_hat_cols, bi, btwn, tmp, sbm_args, sbm_calls>>

\* plt.scatter(k, d) and the labels; the cell ends
SweepPlot ==
    /\ pc = "sweep_done"
    /\ pc' = "idle"
    /\ UNCHANGED <<rng, i, n, P, k, d, X_hat_cols, bi, btwn, tmp, sbm_args, sbm_calls>>

(***************************************************************************)
(* Cell "debugging n_elbows: between probabilities are not the same"       *)
(***************************************************************************)
btwn_max == linspace(Prob(1, 100), Prob(49, 100), NumBtwnMax)

\* btwn_max, set_params; the loop takes its first b
MaskSetup ==
    /\ pc = "idle"
    /\ bi' = 1
    /\ sbm_calls' = 0
    /\ pc' = "mask_build"
    /\ UNCHANGED <<rng, i, n, P, k, d, X_hat_cols, btwn, tmp, sbm_args>>

\* btwn = np.linspace(b/(45), b, 45); P = np.identity(10)
MaskBuild ==
    /\ pc = "mask_build"
    /\ btwn' = linspace(btwn_max[bi] \div HalfOff, btwn_max[bi], HalfOff)
    /\ P' = identity(MaskBlocks)
    /\ pc' = "mask_first"
    /\ UNCHANGED <<rng, i, n, k, d, X_hat_cols, bi, tmp, sbm_args, sbm_calls>>

\* P[P==0][:45] = btwn
MaskAssignFirst ==
    /\ pc = "mask_first"
    /\ tmp' = MaskedSliceTemp(P, EqMask(P, 0), 0, HalfOff, btwn)
    /\ P' = MaskedSliceTarget(P, EqMask(P, 0), 0, HalfOff, btwn)
    /\ pc' = "mask_last"
    /\ UNCHANGED <<rng, i, n, k, d, X_hat_cols, bi, btwn, sbm_args, sbm_calls>>

\* P[P==0][45:] = np.flip(btwn)
MaskAssignLast ==
    /\ pc = "mask_last"
    /\ LET M == EqMask(P, 0)
           len == Len(BoolIndex(P, M))
       IN  /\ tmp' = MaskedSliceTemp(P, M, HalfOff, len, flip(btwn))
           /\ P' = MaskedSliceTarget(P, M, HalfOff, len, flip(btwn))
    /\ pc' = "mask_sample"
    /\ UNCHANGED <<rng, i, n, k, d, X_hat_cols, bi, btwn, sbm_args, sbm_calls>>

\* plt.plot(svdvals(P)); n = [25]*10; G = sbm(n, P); embedder.fit(G); the plots;
\* then the next b of btwn_max or the end of the cell
MaskSample ==
    /\ pc = "mask_sample"
    /\ n' = [t \in 1..MaskBlocks |-> BlockSize]
    /\ sbm_args' = [n |-> n', P |-> P]
    /\ sbm_calls' = sbm_calls + 1
    /\ IF bi < Len(btwn_max)
         THEN bi' = bi + 1 /\ pc' = "mask_build"
         ELSE bi' = bi /\ pc' = "idle"
    /\ UNCHANGED <<rng, i, P, k, d, X_hat_cols, btwn, tmp>>

(***************************************************************************)
(* The notebook                                                            *)
(***************************************************************************)
Next ==
    \/ SweepSetup
    \/ SweepSample
    \/ SweepUpdate
    \/ SweepExtend
    \/ SweepPlot
    \/ MaskSetup
    \/ MaskBuild
    \/ MaskAssignFirst
    \/ MaskAssignLast
    \/ MaskSample

Spec == Init /\ [][Next]_vars

(***************************************************************************)
(* Properties                                                              *)
(***************************************************************************)
\* A is the m x m block probability matrix: within_block on the diagonal,
\* btwn_block everywhere else
IsBlockMatrix(A, m) ==
    /\ Len(A) = m
    /\ \A r \in 1..m :
         /\ Len(A[r]) = m
         /\ \A c \in 1..m : A[r][c] = (IF r = c THEN within_block ELSE btwn_block)

\* the mask selecting the off-diagonal entries of a square matrix
OffDiagonal(A) == [r \in 1..Shape0(A) |-> [c \in 1..Shape1(A) |-> r # c]]

\* C9: in the sweep loop, every call sbm(n, P) receives an m x m matrix P with
\* m = i + 2, within_block on its diagonal and btwn_block off it, and a list n
\* of exactly m entries, all 25; after the loop k is exactly 2, 3, ..., 100 in
\* order and k and d both have 99 entries.
C9_SweepCallsAndCounts ==
    /\ pc = "sweep_update" =>
         /\ sbm_calls = i + 1
         /\ IsBlockMatrix(sbm_args.P, i + 2)
         /\ Len(sbm_args.n) = i + 2
         /\ \A t \in 1..Len(sbm_args.n) : sbm_args.n[t] = BlockSize
    /\ pc = "sweep_done" =>
         /\ k = [j \in 1..SweepIters |-> j + 1]
         /\ Len(k) = SweepIters
         /\ Len(d) = SweepIters

\* the sweep has made its last call (100 blocks) and left the loop
C9_Witness ==
    /\ pc = "sweep_done"
    /\ sbm_calls = SweepIters
    /\ Len(sbm_args.n) = SweepIters + 1
    /\ k[Len(k)] = SweepIters + 1

\* C10: in the "between probabilities are not the same" loop, after the two
\* masked assignments the matrix P handed to svdvals and sbm has its 90
\* off-diagonal entries, in row-major order, equal to btwn followed by btwn
\* reversed, so they are non-zero and not all equal, and its diagonal is 1.
C10_MaskedAssignFillsOffDiagonal ==
    pc = "mask_sample" =>
        LET off == BoolIndex(P, OffDiagonal(P))
        IN  /\ Len(off) = 2 * HalfOff
            /\ off = btwn \o flip(btwn)
            /\ \A t \in 1..Len(off) : off[t] # 0
            /\ \E s, t \in 1..Len(off) : off[s] # off[t]
            /\ \A r \in 1..Len(P) : P[r][r] = Unit

\* what the cell does instead: the values land in the temporary array and the
\* matrix handed to svdvals and sbm is still the identity
MaskLeavesIdentity ==
    pc = "mask_sample" =>
        /\ P = identity(MaskBlocks)
        /\ tmp = SliceAssign([t \in 1..(2 * HalfOff) |-> 0], HalfOff, 2 * HalfOff, flip(btwn))

====
